---- MODULE Spec2Model ----
(***************************************************************************)
(* Context & Knowledge Memory subsystem of ARIA.                           *)
(*                                                                         *)
(* Conversational Memory Store: app/services/context_memory_service.py     *)
(* Knowledge Retrieval Engine:  app/services/vector_service.py,            *)
(*                              app/services/bible_rag_service.py,         *)
(*                              app/services/bible_data_service.py,        *)
(*                              app/services/ai_service.py                 *)
(*                                                                         *)
(* Scheduling.  Every handler is an `async def` run on one event loop.  A  *)
(* coroutine gives up control only where it awaits something that really   *)
(* suspends.  The SQLAlchemy and redis calls of the memory service are     *)
(* synchronous, so each of its handlers runs from entry to return without  *)
(* interleaving and is one action here.  The embedding build suspends      *)
(* after every batch (asyncio.sleep), so a build is a process with a       *)
(* position.                                                               *)
(***************************************************************************)
EXTENDS Integers, Sequences, FiniteSets, TLC

(***************************************************************************)
(* Bounds of the model.                                                    *)
(***************************************************************************)
MaxTime == 5            \* the clock runs 0..MaxTime in the session runs
MaxCalls == 3           \* session resolutions in the session runs
MaxTurns == 21          \* conversations stored in the conversation runs
MaxConvTime == 1        \* the clock runs 0..MaxConvTime in those runs
MaxAccess == 3          \* access_count of a preference in the preference runs
MaxPrefTime == 1        \* the clock runs 0..MaxPrefTime in those runs
VerseCorpus == 101      \* verses per translation in the index runs
CommentaryCorpus == 51  \* commentary entries in the index runs
MaxDistance == 2        \* distances a query sees are 0..MaxDistance
MaxTokens == 2          \* tokens of a message
MaxDeletes == 1         \* collections deleted in the index runs
MaxWrites == 3          \* writes committed in the write runs
MaxLearn == 3           \* interactions learned from in the learning runs
MaxLearnTime == 1       \* the clock runs 0..MaxLearnTime in those runs
MaxObserve == 7         \* interactions of the one user of the confidence runs
MaxFaults == 1          \* appends with a redis or database fault in those runs

(***************************************************************************)
(* Program constants.                                                      *)
(***************************************************************************)
SessionWindowHours == 4 \* timedelta(hours=4)
RecentEventsKept == 50  \* ltrim(recent_events, 0, 49)

Users == {"default_user", "other_user"}
EventTypes == {"unlock", "wake_word"}

NoSession == 0          \* no row / Python None for an id
NoTime == -1            \* session_end IS NULL

RecentConversationsKept == 20  \* ltrim(recent_conversations, 0, 19)
InitialAccessCount == 1        \* UserContext.access_count default
ContextLimit == 5              \* get_conversation_context(limit=5)

CommentaryLimit == 2           \* search_commentary(.., limit=2)
DefaultLimit == 5              \* search_verses(.., limit: int = 5)
VerseBatchSize == 100          \* create_verse_embeddings: batch_size
CommentaryBatchSize == 50      \* create_commentary_embeddings: batch_size

Procs == {"request1", "request2"}
\* the collections in the order _ensure_embeddings_exist visits them
Collections == <<"bible_verses_bsb", "bible_verses_kjv", "bible_commentary">>
CollectionNames == {Collections[i] : i \in 1..Len(Collections)}

ConvTypes == {"voice", "text"}
Keys == {"voice_preference", "greeting_style", "interaction_history"}
Values == {"v1", "v2"}
NoValue == "None"       \* Python None for a preference value
NoCache == <<>>         \* redis GET of a missing or expired key

\* How redis behaves during one handler call: the client is absent
\* (redis_client is None: import or ping failed at construction), or the
\* number of redis commands that succeed before commands start to raise.
NoClient == -1
AlwaysUp == 99
RedisModes == {NoClient, 0, 1, AlwaysUp}
TieOrders == {"asc", "desc"}

\* What a user says to learn_from_interaction, character by character
Utterances ==
  {<<>>,
   <<"w", "h", "a", "t", " ", "t", "i", "m", "e", " ", "i", "s", " ", "i", "t", "?">>,
   <<"W", "h", "a", "t", " ", "t", "i", "m", "e">>,
   <<"t", "h", "i", "s", " ", "s", "o", "n", "g">>,
   <<"W", "h", "e", "n">>}

\* A message is a sequence of tokens: words, and chapter:verse pairs
Words == {"John", "john", "tell"}
Tokens ==
  [kind : {"word"}, word : Words, chapter : {0}, verse : {0}]
    \cup [kind : {"numbers"}, word : {""}, chapter : {3}, verse : {16, 18}]
Texts == UNION {[1..n -> Tokens] : n \in 1..MaxTokens}

\* the rows BSB.csv can hold for these verses, as _clean_verse_data
\* leaves them: one column per field
VerseText(verse) ==
  IF verse = 16 THEN "For God so loved the world"
  ELSE "For God did not send His Son"
Rows ==
  {[Book |-> "John", Chapter |-> 3, Verse |-> v, Text |-> VerseText(v),
    Translation |-> "BSB"] : v \in {16, 17}}

VARIABLES
  now,            \* wall clock / database clock, in hours
  sessions,       \* table sessions, rows in insertion order
  events,         \* table system_events, rows in insertion order
  recentEvents,   \* redis list recent_events:<user>
  conversations,  \* table conversations, rows in insertion order
  convCache,      \* redis list recent_conversations:<user>
  typePattern,    \* table interaction_patterns, the conversation_types row
  topicPattern,   \* table interaction_patterns, the topic_interest rows
  hourPattern,    \* table interaction_patterns, the active_hours row
  prefs,          \* table user_context, by (user, key)
  prefCache,      \* redis keys user_context:<user>:<key>
  corpus,         \* number of records the corpus holds per collection
  bsb,            \* rows of the BSB verse table among the verses a
                  \* message can name
  chroma,         \* the persistent vector store, by collection name
  proc,           \* the callers of BibleRAGService.initialize
  faults,         \* appends so far during which redis or the database
                  \* was absent or failing; batches that failed to embed
  resolved,       \* per user: id returned by the last completed
                  \* _get_current_session and the number of completed calls
  ret             \* what the last handler returned

sessVars == <<sessions, resolved>>
eventVars == <<events, recentEvents>>
learnVars == <<topicPattern, hourPattern>>
convVars == <<conversations, convCache, typePattern, learnVars>>
prefVars == <<prefs, prefCache>>
idxVars == <<corpus, bsb, chroma, proc>>
memVars == <<now, sessVars, eventVars, convVars, prefVars, faults>>
vars == <<now, sessVars, eventVars, convVars, prefVars, idxVars, faults, ret>>

(***************************************************************************)
(* Generic helpers.                                                        *)
(***************************************************************************)
Min(a, b) == IF a <= b THEN a ELSE b

\* redis LPUSH key value
LPush(list, v) == <<v>> \o list

\* redis LTRIM key 0 stop
LTrim(list, stop) == SubSeq(list, 1, Min(Len(list), stop + 1))

\* redis LRANGE key 0 stop
LRange(list, stop) == SubSeq(list, 1, Min(Len(list), stop + 1))

\* the rows a query without ORDER BY may return as .first(): any matching
\* row, or None when there is none
FirstOf(rows) == IF rows = {} THEN {NoSession} ELSE rows

(***************************************************************************)
(* SessionStore: ContextMemoryService._get_current_session                 *)
(***************************************************************************)
\* db.query(DBSession).filter_by(user_id=..)
\*   .filter(session_start >= cutoff_time).filter(session_end.is_(None))
ActiveSessionsBroken(tbl, u, t) ==
  {i \in 1..Len(tbl) :
     /\ tbl[i].user_id = u
     /\ tbl[i].session_start > t
     /\ tbl[i].session_end = NoTime}

ActiveSessionsAnyUser(tbl, u, t) ==
  {i \in 1..Len(tbl) :
     /\ tbl[i].session_start >= t - SessionWindowHours
     /\ tbl[i].session_end = NoTime}

ActiveSessionsIgnoringEnd(tbl, u, t) ==
  {i \in 1..Len(tbl) :
     /\ tbl[i].user_id = u
     /\ tbl[i].session_start >= t - SessionWindowHours}

ActiveSessions(tbl, u, t) ==
  {i \in 1..Len(tbl) :
     /\ tbl[i].user_id = u
     /\ tbl[i].session_start >= t - SessionWindowHours
     /\ tbl[i].session_end = NoTime}

\* the new row of `session = DBSession(user_id=.., session_start=utcnow())`
NewSession(tbl, u, t) ==
  [id |-> Len(tbl) + 1, user_id |-> u, session_start |-> t,
   session_end |-> NoTime,
   \* the column defaults: total_interactions 0, last_activity func.now()
   total_interactions |-> 0, last_activity |-> t]

\* _get_current_session with `first` the row .first() returned:
\* the table afterwards and the session returned
_get_current_session(tbl, u, t, first) ==
  IF first = NoSession
    THEN [sessions |-> Append(tbl, NewSession(tbl, u, t)),
          session |-> Len(tbl) + 1]
    ELSE [sessions |-> tbl, session |-> first]

\* number of completed resolutions, all users
RECURSIVE SumCalls(_)
SumCalls(S) ==
  IF S = {} THEN 0
  ELSE LET u == CHOOSE x \in S : TRUE
       IN resolved[u].n + SumCalls(S \ {u})

\* close(sessionId) of the SessionStore: sets the end time of an open
\* session.  The column is declared in the Session table and read by
\* _get_current_session; the operation itself is taken from the
\* specification.
close(sessionId) ==
  /\ sessionId \in 1..Len(sessions)
  /\ sessions[sessionId].session_end = NoTime
  /\ sessions' = [sessions EXCEPT ![sessionId].session_end = now]
  /\ UNCHANGED <<now, resolved, eventVars, convVars, prefVars, idxVars,
                 faults, ret>>

\* bookkeeping of completed resolutions
Resolved(u, sid) ==
  [resolved EXCEPT ![u] = [id |-> sid, n |-> @.n + 1]]

\* a handler's return, one shape for all handlers
Ret(op, u, session, id, list, value) ==
  [op |-> op, user |-> u, session |-> session, id |-> id, list |-> list,
   value |-> value]

NoRet == Ret("none", "default_user", NoSession, 0, <<>>, NoValue)

NoPattern == [exists |-> FALSE, frequency |-> 0,
              types |-> [c \in ConvTypes |-> 0]]
NoPref == [exists |-> FALSE, value |-> NoValue, access_count |-> 0,
           last_accessed |-> NoTime]

\* the redis client during a handler call
HasClient(r) == r # NoClient
CmdOk(r) == r > 0
AfterCmd(r) == IF r = AlwaysUp THEN r ELSE r - 1

(***************************************************************************)
(* Environment: time passes.                                               *)
(***************************************************************************)
Tick(limit) ==
  /\ now < limit
  /\ now' = now + 1
  /\ UNCHANGED <<sessVars, eventVars, convVars, prefVars, idxVars, faults,
                 ret>>

(***************************************************************************)
(* ContextMemoryService.store_system_event                                 *)
(***************************************************************************)
store_system_event(u, mode, dbOk) ==
  \E first \in FirstOf(ActiveSessions(sessions, u, now)) :
    LET r == _get_current_session(sessions, u, now, first)
        eid == Len(events) + 1
        event == [id |-> eid, user_id |-> u, session_id |-> r.session]
        pushed == HasClient(mode) /\ CmdOk(mode)
        trimmed == pushed /\ CmdOk(AfterCmd(mode))
    IN /\ sessions' = r.sessions
       /\ resolved' = Resolved(u, r.session)
       /\ UNCHANGED <<now, convVars, prefVars, idxVars, faults>>
       /\ IF ~dbOk
            THEN \* db.commit() of the event raises: rollback, return None
                 /\ UNCHANGED <<events, recentEvents>>
                 /\ ret' = Ret("store_system_event", u, r.session, 0, <<>>,
                            NoValue)
            ELSE /\ events' = Append(events, event)
                 /\ recentEvents' =
                      [recentEvents EXCEPT ![u] =
                         IF trimmed
                           THEN LTrim(LPush(@, eid), RecentEventsKept - 1)
                           ELSE IF pushed THEN LPush(@, eid) ELSE @]
                 \* lpush and ltrim are not guarded: a redis error after
                 \* the commit ends in `return None`
                 /\ ret' = Ret("store_system_event", u, r.session,
                            IF HasClient(mode) /\ ~trimmed THEN 0 ELSE eid,
                            <<>>, NoValue)

(***************************************************************************)
(* PreferenceStore: get_user_context / set_user_context                    *)
(***************************************************************************)
\* json.dumps / json.loads of a preference value
json_dumps(v) == <<"json", v>>
json_loads(s) == s[2]

\* `if cached_value:` -- a missing key gives None, a stored string is never
\* empty
Truthy(cached) == cached # NoCache

PrefEffect(db, cache, value, r) ==
  [prefs |-> db, prefCache |-> cache, value |-> value, redis |-> r]

\* get_user_context: the tables afterwards, the value returned and what is
\* left of the redis budget
get_user_context(db, cache, u, k, r, t) ==
  LET row == db[u][k]
      touched == [db EXCEPT ![u][k] =
                    [@ EXCEPT !.last_accessed = t,
                              !.access_count = @ + 1]]
      FromDb(r1) ==
        IF ~row.exists
          THEN PrefEffect(db, cache, NoValue, r1)
        ELSE IF ~HasClient(r1)
          THEN PrefEffect(touched, cache, row.value, r1)
        ELSE IF CmdOk(r1)
          THEN PrefEffect(touched,
                          [cache EXCEPT ![u][k] = json_dumps(row.value)],
                          row.value, AfterCmd(r1))
        \* setex raises after the commit: except -> return None
        ELSE PrefEffect(touched, cache, NoValue, r1)
  IN IF ~HasClient(r) THEN FromDb(r)
     \* redis get raises: except -> return None
     ELSE IF ~CmdOk(r) THEN PrefEffect(db, cache, NoValue, r)
     ELSE IF Truthy(cache[u][k])
       THEN PrefEffect(db, cache, json_loads(cache[u][k]), AfterCmd(r))
     ELSE FromDb(AfterCmd(r))

\* set_user_context: the tables afterwards and the boolean returned
set_user_context(db, cache, u, k, v, r, dbOk, t) ==
  LET row == db[u][k]
      upserted ==
        [db EXCEPT ![u][k] =
           IF row.exists
             THEN [@ EXCEPT !.value = v, !.last_accessed = t,
                            !.access_count = @ + 1]
             ELSE [exists |-> TRUE, value |-> v,
                   access_count |-> InitialAccessCount,
                   last_accessed |-> t]]
  IN IF ~dbOk
       THEN [prefs |-> db, prefCache |-> cache, ok |-> FALSE]
     ELSE IF ~HasClient(r)
       THEN [prefs |-> upserted, prefCache |-> cache, ok |-> TRUE]
     ELSE IF CmdOk(r)
       THEN [prefs |-> upserted,
             prefCache |-> [cache EXCEPT ![u][k] = json_dumps(v)],
             ok |-> TRUE]
     \* setex raises after the commit: rollback does nothing, return False
     ELSE [prefs |-> upserted, prefCache |-> cache, ok |-> FALSE]

(***************************************************************************)
(* ConversationCache: store_conversation / get_recent_conversations        *)
(***************************************************************************)
\* ORDER BY timestamp DESC.  Rows of equal timestamp come in an order the
\* database chooses: here insertion order or its reverse.
Reverse(list) == [n \in 1..Len(list) |-> list[Len(list) + 1 - n]]

\* the rows of one timestamp, in the order the database chose
SameTimestamp(tbl, rows, t, tie) ==
  LET asc == SelectSeq([i \in 1..Len(tbl) |-> i],
                       LAMBDA i : i \in rows /\ tbl[i].timestamp = t)
  IN IF tie = "asc" THEN asc ELSE Reverse(asc)

RECURSIVE OrderByTimestampDesc(_, _, _)
OrderByTimestampDesc(tbl, rows, tie) ==
  IF rows = {} THEN <<>>
  ELSE LET t == CHOOSE x \in {tbl[i].timestamp : i \in rows} :
                  \A i \in rows : tbl[i].timestamp <= x
           older == {i \in rows : tbl[i].timestamp < t}
       IN SameTimestamp(tbl, rows, t, tie)
            \o OrderByTimestampDesc(tbl, older, tie)

\* .limit(n)
Limit(list, n) == SubSeq(list, 1, Min(Len(list), n))

\* the dictionary built from a row, in the cache and in the result
Projection(conv) == [id |-> conv.id, timestamp |-> conv.timestamp]

\* _get_cached_conversations: [] without a client or when lrange raises
_get_cached_conversations(cache, u, limit, r) ==
  IF HasClient(r) /\ CmdOk(r) THEN LRange(cache[u], limit - 1) ELSE <<>>

\* the database branch of get_recent_conversations
RecentFromDb(tbl, u, limit, tie) ==
  LET rows == {i \in 1..Len(tbl) : tbl[i].user_id = u}
      ordered == Limit(OrderByTimestampDesc(tbl, rows, tie), limit)
  IN [n \in 1..Len(ordered) |-> Projection(tbl[ordered[n]])]

get_recent_conversations(tbl, cache, u, limit, r, tie) ==
  LET cached == _get_cached_conversations(cache, u, limit, r)
  IN IF HasClient(r) /\ cached # <<>>
       THEN cached
       ELSE RecentFromDb(tbl, u, limit, tie)

\* _cache_recent_conversation: lpush then ltrim, errors logged and dropped
_cache_recent_conversationUncommitted(list, conv, r) ==
  LPush(list, Projection([conv EXCEPT !.id = @ + 1]))

_cache_recent_conversation(list, conv, r) ==
  IF ~HasClient(r) \/ ~CmdOk(r) THEN list
  ELSE IF ~CmdOk(AfterCmd(r)) THEN LPush(list, Projection(conv))
  ELSE LTrim(LPush(list, Projection(conv)), RecentConversationsKept - 1)

\* What the ORM writes for a JSON column at flush: the assigned value,
\* unless it equals the loaded object as that object is now.
JsonFlush(loadedNow, assigned, stored) ==
  IF assigned = loadedNow THEN stored ELSE assigned

\* _update_interaction_patterns: the conversation_types row afterwards
_update_interaction_patterns(p, c) ==
  IF p.exists
    THEN LET types_data == [p.types EXCEPT ![c] = @ + 1]
             \* types_data is the loaded dictionary itself, changed in place
         IN [exists |-> TRUE, frequency |-> p.frequency + 1,
             types |-> JsonFlush(types_data, types_data, p.types)]
    ELSE [exists |-> TRUE, frequency |-> 1,
          types |-> [x \in ConvTypes |-> IF x = c THEN 1 ELSE 0]]

\* recordTurn
store_conversation(u, c, mode, dbOk) ==
  \E first \in FirstOf(ActiveSessions(sessions, u, now)) :
    LET r == _get_current_session(sessions, u, now, first)
        cid == Len(conversations) + 1
        conv == [id |-> cid, user_id |-> u, session_id |-> r.session,
                 timestamp |-> now]
    IN /\ sessions' = r.sessions
       /\ resolved' = Resolved(u, r.session)
       /\ UNCHANGED <<now, eventVars, prefVars, idxVars>>
       /\ faults' = IF mode = AlwaysUp /\ dbOk THEN faults ELSE faults + 1
       /\ IF ~dbOk
            THEN \* db.commit() of the conversation raises: return None
                 /\ UNCHANGED convVars
                 /\ ret' = Ret("store_conversation", u, r.session, 0, <<>>,
                            NoValue)
            ELSE /\ UNCHANGED learnVars
                 /\ conversations' = Append(conversations, conv)
                 /\ convCache' =
                      [convCache EXCEPT ![u] =
                         _cache_recent_conversation(@, conv, mode)]
                 /\ typePattern' =
                      [typePattern EXCEPT ![u] =
                         _update_interaction_patterns(@, c)]
                 /\ ret' = Ret("store_conversation", u, r.session, cid,
                            <<>>, NoValue)

\* recentTurns
recentTurns(u, limit, mode, tie) ==
  /\ ret' = Ret("get_recent_conversations", u, NoSession, limit,
                get_recent_conversations(conversations, convCache, u, limit,
                                         mode, tie),
                NoValue)
  /\ UNCHANGED <<now, sessVars, eventVars, convVars, prefVars, idxVars,
                 faults>>

\* getPreference; ret.id holds how far redis answered during the call
getPreference(u, k, mode) ==
  LET e == get_user_context(prefs, prefCache, u, k, mode, now)
  IN /\ prefs' = e.prefs
     /\ prefCache' = e.prefCache
     /\ ret' = Ret("get_user_context", u, NoSession, mode, <<k>>, e.value)
     /\ UNCHANGED <<now, sessVars, eventVars, convVars, idxVars, faults>>

\* setPreference
setPreference(u, k, v, mode, dbOk) ==
  LET e == set_user_context(prefs, prefCache, u, k, v, mode, dbOk, now)
  IN /\ prefs' = e.prefs
     /\ prefCache' = e.prefCache
     /\ ret' = Ret("set_user_context", u, NoSession, IF e.ok THEN 1 ELSE 0,
                   <<k>>, v)
     /\ UNCHANGED <<now, sessVars, eventVars, convVars, idxVars, faults>>

\* the 3600 s TTL of a cached preference runs out
ExpirePreference(u, k) ==
  /\ prefCache[u][k] # NoCache
  /\ prefCache' = [prefCache EXCEPT ![u][k] = NoCache]
  /\ UNCHANGED <<now, sessVars, eventVars, convVars, prefs, idxVars, faults,
                 ret>>

\* get_conversation_context: recent conversations, three preferences, then
\* the current session
get_conversation_context(u, mode, tie) ==
  \E first \in FirstOf(ActiveSessions(sessions, u, now)) :
    LET recent == get_recent_conversations(conversations, convCache, u,
                                           ContextLimit, mode, tie)
        r1 == IF HasClient(mode) /\ CmdOk(mode) THEN AfterCmd(mode) ELSE mode
        e1 == get_user_context(prefs, prefCache, u, "voice_preference", r1,
                               now)
        e2 == get_user_context(e1.prefs, e1.prefCache, u, "greeting_style",
                               e1.redis, now)
        e3 == get_user_context(e2.prefs, e2.prefCache, u,
                               "interaction_history", e2.redis, now)
        r == _get_current_session(sessions, u, now, first)
    IN /\ prefs' = e3.prefs
       /\ prefCache' = e3.prefCache
       /\ sessions' = r.sessions
       /\ resolved' = Resolved(u, r.session)
       /\ ret' = Ret("get_conversation_context", u, r.session, 0, recent,
                     e1.value)
       /\ UNCHANGED <<now, eventVars, convVars, idxVars, faults>>

(***************************************************************************)
(* PatternLearner: ContextMemoryService.learn_from_interaction             *)
(***************************************************************************)
HoursPerDay == 24
InitialConfidence == 5   \* confidence_score=0.5, in tenths
ConfidenceStep == 1      \* + 0.1, in tenths
ConfidenceCap == 10      \* min(1.0, ..), in tenths

\* the keys of `keywords` in _extract_topics
Topics == {"time", "weather", "greeting", "help", "music", "reminder",
           "question"}

\* keywords[topic]
keywords(topic) ==
  CASE topic = "time" ->
         {<<"t", "i", "m", "e">>,
          <<"c", "l", "o", "c", "k">>,
          <<"h", "o", "u", "r">>,
          <<"m", "i", "n", "u", "t", "e">>,
          <<"w", "h", "e", "n">>}
    [] topic = "weather" ->
         {<<"w", "e", "a", "t", "h", "e", "r">>,
          <<"t", "e", "m", "p", "e", "r", "a", "t", "u", "r", "e">>,
          <<"r", "a", "i", "n">>,
          <<"s", "u", "n", "n", "y">>,
          <<"c", "l", "o", "u", "d", "y">>}
    [] topic = "greeting" ->
         {<<"h", "e", "l", "l", "o">>,
          <<"h", "i">>,
          <<"g", "o", "o", "d", " ", "m", "o", "r", "n", "i", "n", "g">>,
          <<"g", "o", "o", "d", " ", "a", "f", "t", "e", "r", "n", "o", "o", "n">>,
          <<"g", "o", "o", "d", " ", "e", "v", "e", "n", "i", "n", "g">>}
    [] topic = "help" ->
         {<<"h", "e", "l", "p">>,
          <<"a", "s", "s", "i", "s", "t">>,
          <<"s", "u", "p", "p", "o", "r", "t">>,
          <<"h", "o", "w", " ", "t", "o">>}
    [] topic = "music" ->
         {<<"m", "u", "s", "i", "c">>,
          <<"s", "o", "n", "g">>,
          <<"p", "l", "a", "y">>,
          <<"l", "i", "s", "t", "e", "n">>}
    [] topic = "reminder" ->
         {<<"r", "e", "m", "i", "n", "d">>,
          <<"r", "e", "m", "e", "m", "b", "e", "r">>,
          <<"s", "c", "h", "e", "d", "u", "l", "e">>,
          <<"a", "p", "p", "o", "i", "n", "t", "m", "e", "n", "t">>}
    [] topic = "question" ->
         {<<"w", "h", "a", "t">>,
          <<"h", "o", "w">>,
          <<"w", "h", "y">>,
          <<"w", "h", "e", "r", "e">>,
          <<"w", "h", "e", "n">>,
          <<"w", "h", "o">>}

NoTopic == [frequency |-> 0, confidence_score |-> 0]
NoHours == [exists |-> FALSE, frequency |-> 0,
            hours |-> [h \in 0..(HoursPerDay - 1) |-> 0]]

\* str.lower(), one character
LowerChar(ch) ==
  IF ch = "W" THEN "w" ELSE IF ch = "T" THEN "t" ELSE ch

text_lower(text) == [i \in DOMAIN text |-> LowerChar(text[i])]

\* word in text: the word is a substring of the text
Occurs(word, text) ==
  \E i \in 1..(Len(text) - Len(word) + 1) :
    SubSeq(text, i, i + Len(word) - 1) = word

\* _extract_topics: the topics one of whose words occurs in the lower-cased
\* text; none for an empty text
_extract_topicsExact(text) ==
  {topic \in Topics : text_lower(text) \in keywords(topic)}

_extract_topics(text) ==
  IF text = <<>> THEN {}
  ELSE {topic \in Topics :
          \E word \in keywords(topic) : Occurs(word, text_lower(text))}

\* the topic_interest row of a found topic afterwards; confidence_score is
\* counted in tenths, the rounding of the binary sums is left out
LearnTopicUncapped(row) ==
  IF row.frequency > 0
    THEN [frequency |-> row.frequency + 1,
          confidence_score |-> row.confidence_score + ConfidenceStep]
    ELSE [frequency |-> 1, confidence_score |-> InitialConfidence]

LearnTopic(row) ==
  IF row.frequency > 0
    THEN [frequency |-> row.frequency + 1,
          confidence_score |->
            Min(ConfidenceCap, row.confidence_score + ConfidenceStep)]
    ELSE [frequency |-> 1, confidence_score |-> InitialConfidence]

\* the active_hours row afterwards
LearnHour(p, current_hour) ==
  IF p.exists
    THEN LET hours_data == [p.hours EXCEPT ![current_hour] = @ + 1]
             \* hours_data is the loaded dictionary itself, changed in place
         IN [exists |-> TRUE, frequency |-> p.frequency + 1,
             hours |-> JsonFlush(hours_data, hours_data, p.hours)]
    ELSE [exists |-> TRUE, frequency |-> 1,
          hours |-> [h \in 0..(HoursPerDay - 1) |->
                       IF h = current_hour THEN 1 ELSE 0]]

\* observe.  dbOk: the queries and the commit succeed; otherwise the
\* handler rolls back.  It returns None either way.
learn_from_interactionWithoutRollback(u, text, dbOk) ==
  /\ faults' = IF dbOk THEN faults ELSE faults + 1
  /\ topicPattern' =
       [topicPattern EXCEPT ![u] =
          [topic \in Topics |->
             IF topic \in _extract_topics(text)
               THEN LearnTopic(@[topic]) ELSE @[topic]]]
  /\ hourPattern' =
       IF dbOk
         THEN [hourPattern EXCEPT ![u] = LearnHour(@, now % HoursPerDay)]
         ELSE hourPattern
  /\ ret' = Ret("learn_from_interaction", u, NoSession,
                IF dbOk THEN hourPattern[u].frequency + 1 ELSE 0, text,
                NoValue)
  /\ UNCHANGED <<now, sessVars, eventVars, conversations, convCache,
                 typePattern, prefVars, idxVars>>

learn_from_interaction(u, text, dbOk) ==
  /\ faults' = IF dbOk THEN faults ELSE faults + 1
  /\ IF dbOk
       THEN /\ topicPattern' =
                 [topicPattern EXCEPT ![u] =
                    [topic \in Topics |->
                       IF topic \in _extract_topics(text)
                         THEN LearnTopic(@[topic]) ELSE @[topic]]]
            /\ hourPattern' =
                 [hourPattern EXCEPT ![u] = LearnHour(@, now % HoursPerDay)]
            /\ ret' = Ret("learn_from_interaction", u, NoSession,
                          hourPattern[u].frequency + 1, text, NoValue)
       ELSE /\ UNCHANGED learnVars
            /\ ret' = Ret("learn_from_interaction", u, NoSession, 0, text,
                          NoValue)
  /\ UNCHANGED <<now, sessVars, eventVars, conversations, convCache,
                 typePattern, prefVars, idxVars>>

(***************************************************************************)
(* EmbeddingIndex: VectorService and                                       *)
(* BibleRAGService._ensure_embeddings_exist                                *)
(***************************************************************************)
NoCollection == [exists |-> FALSE, gen |-> 0, entries |-> <<>>]
IdleProc == [pc |-> "idle", snapshot |-> {}, coll |-> 0, next |-> 0,
             gen |-> 0]

batch_size(c) ==
  IF c = "bible_commentary" THEN CommentaryBatchSize ELSE VerseBatchSize

\* try: get_collection(name) except: create_collection(name)
GetOrCreate(ch, c) ==
  IF ch[c].exists THEN ch
  ELSE [ch EXCEPT ![c] = [exists |-> TRUE, gen |-> @.gen + 1,
                          entries |-> <<>>]]

\* ids[i:i + batch_size]; record n of the corpus has the id n
BatchIds(c, i) ==
  [j \in 1..Min(batch_size(c), corpus[c] - i + 1) |-> i + j - 1]

\* collection.add(ids=batch_ids, ..): the store skips an id it already holds
CollectionAdd(entries, ids) ==
  LET present == {entries[n] : n \in 1..Len(entries)}
  IN entries \o SelectSeq(ids, LAMBDA x : x \notin present)

\* get_collection_info: the names of the collections list_collections gives
get_collection_info(ch) == {c \in CollectionNames : ch[c].exists}

\* What the loaders hand to the builders.  BibleDataService defines
\* load_commentary_data twice; the second definition, which returns
\* to_dict('records'), is the one the class keeps.
load_bible_verses == "DataFrame"
load_commentary_data == "list"
InputOf(c) ==
  IF c = "bible_commentary" THEN load_commentary_data ELSE load_bible_verses

\* `for _, row in df.iterrows()`: only a DataFrame has iterrows
HasIterrows(input) == input = "DataFrame"

ReadyProc(snapshot) ==
  [pc |-> "ready", snapshot |-> snapshot, coll |-> 0, next |-> 0, gen |-> 0]

\* _ensure_embeddings_exist from collection number k on, run up to the next
\* await that suspends (the asyncio.sleep after a batch) or to its end.
\* A builder that raises returns False, which the caller ignores.
RECURSIVE EnsureFrom(_, _, _, _)
EnsureFrom(k, snapshot, ch, embedOk) ==
  IF k > Len(Collections)
    THEN [chroma |-> ch, proc |-> ReadyProc(snapshot)]
  ELSE LET c == Collections[k]
           created == GetOrCreate(ch, c)
       IN IF c \in snapshot
            THEN EnsureFrom(k + 1, snapshot, ch, embedOk)
          ELSE IF ~HasIterrows(InputOf(c))
            THEN EnsureFrom(k + 1, snapshot, created, embedOk)
          ELSE IF corpus[c] = 0
            THEN EnsureFrom(k + 1, snapshot, created, embedOk)
          ELSE IF ~embedOk
            THEN EnsureFrom(k + 1, snapshot, created, embedOk)
          ELSE [chroma |->
                  [created EXCEPT ![c].entries =
                     CollectionAdd(@, BatchIds(c, 1))],
                proc |->
                  [pc |-> "building", snapshot |-> snapshot, coll |-> k,
                   next |-> 1 + batch_size(c), gen |-> created[c].gen]]

\* BibleRAGService.initialize of a new service instance, up to its first
\* suspension
initialize(p, embedOk) ==
  /\ proc[p].pc = "idle"
  /\ LET e == EnsureFrom(1, get_collection_info(chroma), chroma, embedOk)
     IN /\ chroma' = e.chroma
        /\ proc' = [proc EXCEPT ![p] = e.proc]
  /\ faults' = IF embedOk THEN faults ELSE faults + 1
  /\ UNCHANGED <<now, sessVars, eventVars, convVars, prefVars, corpus, bsb,
               ret>>

\* a build wakes from asyncio.sleep(0.1) and runs to its next suspension
ResumeBuild(p, embedOk) ==
  /\ proc[p].pc = "building"
  /\ LET k == proc[p].coll
         c == Collections[k]
         i == proc[p].next
         usable == chroma[c].exists /\ chroma[c].gen = proc[p].gen
         e == IF i > corpus[c] \/ ~embedOk \/ ~usable
                THEN EnsureFrom(k + 1, proc[p].snapshot, chroma, embedOk)
                ELSE [chroma |->
                        [chroma EXCEPT ![c].entries =
                           CollectionAdd(@, BatchIds(c, i))],
                      proc |-> [proc[p] EXCEPT !.next = i + batch_size(c)]]
     IN /\ chroma' = e.chroma
        /\ proc' = [proc EXCEPT ![p] = e.proc]
  /\ faults' = IF embedOk THEN faults ELSE faults + 1
  /\ UNCHANGED <<now, sessVars, eventVars, convVars, prefVars, corpus, bsb,
               ret>>

\* the next request constructs its own BibleRAGService
NewRequest(p) ==
  /\ proc[p].pc = "ready"
  /\ proc' = [proc EXCEPT ![p] = IdleProc]
  /\ UNCHANGED <<memVars, corpus, bsb, chroma, ret>>

\* collection.query(n_results=limit): the entries nearest first.  Entries
\* at equal distance come in an order the index chooses.
AtDistance(entries, dist, d, tie) ==
  LET same == SelectSeq(entries, LAMBDA x : dist[x] = d)
  IN IF tie = "asc" THEN same ELSE Reverse(same)

RECURSIVE NearestFrom(_, _, _, _)
NearestFrom(entries, dist, d, tie) ==
  IF d > MaxDistance THEN <<>>
  ELSE AtDistance(entries, dist, d, tie)
         \o NearestFrom(entries, dist, d + 1, tie)

\* 'similarity_score': 1 - results['distances'][0][i]
Similarity(d) == 1 - d

\* one entry of formatted_results: record n of the corpus stands for its
\* own reference and text, under the lower-case keys of the result dict
FormattedResult(n, dist) ==
  [id |-> n, reference |-> n, text |-> n,
   similarity_score |-> Similarity(dist[n])]

\* search_verses / search_commentary on a new VectorService: [] when
\* get_collection raises, else the formatted hits

search(ch, c, limit, dist, tie) ==
  IF ~ch[c].exists THEN <<>>
  ELSE LET hits == Limit(NearestFrom(ch[c].entries, dist, 0, tie), limit)
       IN [n \in 1..Len(hits) |->
             FormattedResult(hits[n], dist)]

\* the store after a search: get_collection never creates a collection
ChromaAfterSearchCreating(ch, c) == GetOrCreate(ch, c)

ChromaAfterSearch(ch, c) == ch

search_verses(c, limit, dist, tie) ==
  /\ ret' = Ret("search", "default_user", NoSession, limit,
                search(chroma, c, limit, dist, tie), c)
  /\ chroma' = ChromaAfterSearch(chroma, c)
  /\ UNCHANGED <<memVars, corpus, bsb, proc>>

\* the distance of record n to the query of these runs
RunDistance == [n \in 1..(VerseCorpus + CommentaryCorpus) |->
                  Min(MaxDistance, (n - 1) \div 2)]

\* VectorService.delete_collection
delete_collection(c) ==
  /\ chroma[c].exists
  /\ chroma' = [chroma EXCEPT ![c] = [@ EXCEPT !.exists = FALSE,
                                               !.entries = <<>>]]
  /\ ret' = Ret("delete_collection", "default_user", NoSession, 1, <<>>, c)
  /\ UNCHANGED <<memVars, corpus, bsb, proc>>

(***************************************************************************)
(* Verse references in a message: AIService._handle_bible_query,           *)
(* BibleRAGService.get_verse_with_context and                              *)
(* BibleDataService.get_verse_by_reference                                 *)
(***************************************************************************)
\* str.lower()
Lower(w) ==
  IF w = "John" THEN "john"
  ELSE IF w = "Jeremiah" THEN "jeremiah"
  ELSE w

\* dict.get(key, default)
DictGet(d, key, default) == IF key \in DOMAIN d THEN d[key] ELSE default

EmptyDict == <<>>

\* re.search(r'\b([1-3]?\s*[A-Za-z]+)\s+(\d+):(\d+)\b', user_input): the
\* leftmost word that a chapter:verse pair follows; group(0), or no match
verse_match(text) ==
  LET at == {i \in 1..(Len(text) - 1) :
               text[i].kind = "word" /\ text[i + 1].kind = "numbers"}
      i == CHOOSE n \in at : \A m \in at : n <= m
  IN IF at = {} THEN <<>> ELSE <<SubSeq(text, i, i + 1)>>

\* the characters of a token
Spelling(token) ==
  IF token.kind = "word" THEN token.word
  ELSE IF token.verse = 16 THEN "3:16" ELSE "3:18"

\* re.match(r'^(.+?)\s+(\d+):(\d+)$', reference.strip()): the reference
\* ends in chapter:verse and the book is all that stands before it;
\* (book, (chapter, verse)), or (None, None) when there is no match
_parse_reference(reference) ==
  LET n == Len(reference)
  IN IF n >= 2 /\ reference[n].kind = "numbers"
       THEN <<[book |-> [i \in 1..(n - 1) |-> Spelling(reference[i])],
               chapter |-> reference[n].chapter,
               verse |-> reference[n].verse]>>
       ELSE <<>>

\* df[(df['Book'].str.lower() == book.lower()) & (df['Chapter'] == chapter)
\*    & (df['Verse'] == verse)]
MatchingRowsAnyVerse(df, book, chapter, verse) ==
  {row \in df :
     /\ <<Lower(row.Book)>> = [i \in DOMAIN book |-> Lower(book[i])]
     /\ row.Chapter = chapter}

MatchingRows(df, book, chapter, verse) ==
  {row \in df :
     /\ <<Lower(row.Book)>> = [i \in DOMAIN book |-> Lower(book[i])]
     /\ row.Chapter = chapter
     /\ row.Verse = verse}

\* get_verse_by_reference: the first matching row as a dict keyed by
\* column; None (no row) when the reference does not parse or no row
\* matches
get_verse_by_reference(df, reference) ==
  LET parsed == _parse_reference(reference)
      result == MatchingRows(df, parsed[1].book, parsed[1].chapter,
                             parsed[1].verse)
  IN IF parsed = <<>> THEN <<>>
     ELSE IF result = {} THEN <<>>
     ELSE <<CHOOSE row \in result : TRUE>>

\* GET /bible/verse/.. and every other caller of get_verse_by_reference
LookupReference(reference) ==
  /\ ret' = Ret("get_verse_by_reference", "default_user", NoSession, 0,
                reference, get_verse_by_reference(bsb, reference))
  /\ UNCHANGED <<memVars, idxVars>>

\* get_verse_with_context: the verse and the commentary search keyed on
\* the reference, or an error
get_verse_with_context(df, ch, reference, tie) ==
  LET verse == get_verse_by_reference(df, reference)
  IN IF verse = <<>>
       THEN [error |-> "Verse not found"]
       ELSE [verse |-> verse[1],
             commentary |-> search(ch, "bible_commentary", CommentaryLimit,
                                   RunDistance, tie)]

\* what one call of the generation endpoint does: it fails (network error,
\* HTTP error status, timeout) or answers with some text, here a sequence
\* of words
Generations ==
  {[ok |-> FALSE, response |-> <<>>],
   [ok |-> TRUE, response |-> <<>>],
   [ok |-> TRUE, response |-> <<"God", "is", "love">>],
   [ok |-> TRUE, response |-> <<"Answer:", "Response:", "God">>]}

\* _call_ollama: every exception ends in `return ""`, so the call never
\* raises
_call_ollama(gen) ==
  [raised |-> FALSE, value |-> IF gen.ok THEN gen.response ELSE <<>>]

patterns_to_remove ==
  <<"Here's my response:", "My response:", "Response:", "Answer:">>

\* the loop of _clean_response from pattern k on: each pattern is tested
\* once, in list order, against what the earlier ones left
RECURSIVE RemovePatterns(_, _)
RemovePatterns(response, k) ==
  IF k > Len(patterns_to_remove) THEN response
  ELSE IF response # <<>> /\ Head(response) = patterns_to_remove[k]
         THEN RemovePatterns(Tail(response), k + 1)
         ELSE RemovePatterns(response, k + 1)

_clean_response(response) ==
  IF response = <<>> THEN <<>> ELSE RemovePatterns(response, 1)

GenerationApology == <<"I apologize, but I'm having trouble generating">>

SearchApology == <<"I apologize, but I encountered an error">>

\* _generate_bible_response: the apology of its except branch is the
\* answer when _call_ollama raises
_generate_bible_response(gen) ==
  LET call == _call_ollama(gen)
  IN IF call.raised THEN GenerationApology
     ELSE _clean_response(call.value)

\* limit=3 of the search_commentary call of ask_bible_question
AnswerCommentaryLimit == 3

\* one retrieval of ask_bible_question: search_verses and
\* search_commentary return [] when the query raises
RetrieveKeepingHits(ch, c, limit, searchOk, tie) ==
  IF searchOk THEN search(ch, c, limit, RunDistance, tie)
  ELSE <<FormattedResult(1, RunDistance)>>

Retrieve(ch, c, limit, searchOk, tie) ==
  IF searchOk THEN search(ch, c, limit, RunDistance, tie) ELSE <<>>

\* the dict ask_bible_question returns once the service is initialized;
\* c is the collection of the requested translation
ask_bible_question(ch, c, include_commentary, gen, searchOk, tie) ==
  LET relevant_verses == Retrieve(ch, c, DefaultLimit, searchOk, tie)
      relevant_commentary ==
        IF include_commentary
          THEN Retrieve(ch, "bible_commentary", AnswerCommentaryLimit,
                        searchOk, tie)
          ELSE <<>>
  IN [answer |-> _generate_bible_response(gen),
      supporting_verses |-> relevant_verses,
      commentary |-> relevant_commentary,
      sources_count |-> Len(relevant_verses) + Len(relevant_commentary)]

\* the dict of the except branch of ask_bible_question
AskError ==
  [answer |-> SearchApology,
   supporting_verses |-> <<>>,
   commentary |-> <<>>,
   error |-> "initialize failed"]

\* the general branch of _handle_bible_query: the answer, then the
\* 'sources' of the result when it has any
QuestionResponse(result) ==
  [branch |-> "question",
   reference |-> <<>>,
   parts |-> result.answer
               \o (IF DictGet(result, "sources", <<>>) # <<>>
                     THEN <<"Sources">> ELSE <<>>),
   searched |-> {"bible_verses_bsb", "bible_commentary"}]

\* the verse branch of _handle_bible_query:
\* f"Here's {reference}: {verse_text}" and the commentary when there is any
VerseKey(result) ==
  DictGet(DictGet(result, "verse", EmptyDict), "text", "")

VerseResponse(reference, result) ==
  [branch |-> "verse",
   reference |-> <<reference>>,
   parts |-> <<"Here's", VerseKey(result)>>
               \o (IF DictGet(result, "commentary", <<>>) # <<>>
                     THEN <<"Context">> ELSE <<>>),
   searched |-> {"bible_commentary"}]

HandleBibleQuery(df, ch, text, gen, searchOk, tie) ==
  LET m == verse_match(text)
      result == get_verse_with_context(df, ch, m[1], tie)
  IN IF m # <<>> /\ "error" \notin DOMAIN result
       THEN VerseResponse(m[1], result)
       ELSE QuestionResponse(ask_bible_question(ch, "bible_verses_bsb", TRUE, gen,
                                            searchOk, tie))

\* the row of Jeremiah 29:11 as _clean_verse_data leaves it, and the
\* reference get_daily_verse falls back to
JeremiahRow ==
  [Book |-> "Jeremiah", Chapter |-> 29, Verse |-> 11,
   Text |-> "For I know the plans I have for you", Translation |-> "BSB"]

FallbackReference ==
  <<[kind |-> "word", word |-> "Jeremiah", chapter |-> 0, verse |-> 0],
    [kind |-> "numbers", word |-> "", chapter |-> 29, verse |-> 11]>>

encouraging_topics ==
  {"hope", "peace", "strength", "love", "faith", "joy", "comfort"}

\* limit=3 of the search_verses call of get_daily_verse
DailyLimit == 3

ReflectionFallback == <<"May this verse bring you peace">>

\* _generate_daily_reflection: as _generate_bible_response, with its own
\* text in the except branch
_generate_daily_reflection(gen) ==
  LET call == _call_ollama(gen)
  IN IF call.raised THEN ReflectionFallback
     ELSE _clean_response(call.value)

\* get_daily_verse once the service is initialized: the first hit of the
\* search, else the row of the fallback reference; the reflection context
\* reads selected_verse['reference'] and selected_verse['text'], and a
\* missing key ends in the except branch
get_daily_verse(df, ch, topic, gen, searchOk, tie) ==
  LET hits == Retrieve(ch, "bible_verses_bsb", DailyLimit, searchOk, tie)
      verses == IF hits # <<>> THEN hits
                ELSE get_verse_by_reference(df, FallbackReference)
      selected_verse == verses[1]
  IN IF verses = <<>>
       THEN [error |-> "Could not retrieve daily verse", topic |-> topic]
     ELSE IF "reference" \notin DOMAIN selected_verse
       THEN [error |-> "KeyError: 'reference'"]
     ELSE IF "text" \notin DOMAIN selected_verse
       THEN [error |-> "KeyError: 'text'"]
     ELSE [verse |-> selected_verse,
           reflection |-> _generate_daily_reflection(gen),
           topic |-> topic]

\* GET /bible/daily-verse from the return of `await self.initialize()` on;
\* ret.list holds what the search met
GetDailyVerse(p, topic, gen, searchOk, tie) ==
  /\ proc[p].pc = "ready"
  /\ ret' = Ret("get_daily_verse", "default_user", NoSession, 0,
                <<[hits |-> Len(Retrieve(chroma, "bible_verses_bsb",
                                         DailyLimit, searchOk, tie))]>>,
                get_daily_verse(bsb, chroma, topic, gen, searchOk, tie))
  /\ UNCHANGED <<memVars, idxVars>>

\* the translations a question can name
VerseCollections == {"bible_verses_bsb", "bible_verses_kjv"}

\* POST /bible/ask from the return of `await self.initialize()` on: the
\* searches, the one generation call and the returned dict. ret.id counts
\* the calls of _call_ollama, ret.list holds the outcomes the call met.
AskBibleQuestion(p, c, include_commentary, gen, searchOk, tie) ==
  /\ proc[p].pc = "ready"
  /\ ret' = Ret("ask_bible_question", "default_user", NoSession, 1,
                <<[generation |-> gen, searchOk |-> searchOk,
                   collection |-> c,
                   include_commentary |-> include_commentary]>>,
                ask_bible_question(chroma, c, include_commentary, gen,
                                   searchOk, tie))
  /\ UNCHANGED <<memVars, idxVars>>

\* POST /bible/ask when initialize raises (the store cannot be opened):
\* the except branch answers and the service stays uninitialized
AskBibleQuestionUninitialized(p) ==
  /\ proc[p].pc = "idle"
  /\ ret' = Ret("ask_bible_question", "default_user", NoSession, 0, <<>>,
                AskError)
  /\ UNCHANGED <<memVars, idxVars>>

\* _handle_bible_query after its `await self.bible_rag.initialize()` has
\* returned
_handle_bible_query(p, text, gen, searchOk, tie) ==
  /\ proc[p].pc = "ready"
  /\ ret' = Ret("bible_query", "default_user", NoSession, 0, text,
                HandleBibleQuery(bsb, chroma, text, gen, searchOk, tie))
  /\ UNCHANGED <<memVars, idxVars>>

(***************************************************************************)
(* Runs.  Every run starts from empty stores.                              *)
(* Session runs:                                                           *)
(***************************************************************************)
InitMemory ==
  /\ now = 0
  /\ sessions = <<>>
  /\ events = <<>>
  /\ recentEvents = [u \in Users |-> <<>>]
  /\ conversations = <<>>
  /\ convCache = [u \in Users |-> <<>>]
  /\ typePattern = [u \in Users |-> NoPattern]
  /\ topicPattern = [u \in Users |-> [topic \in Topics |-> NoTopic]]
  /\ hourPattern = [u \in Users |-> NoHours]
  /\ prefs = [u \in Users |-> [k \in Keys |-> NoPref]]
  /\ prefCache = [u \in Users |-> [k \in Keys |-> NoCache]]
  /\ faults = 0
  /\ resolved = [u \in Users |-> [id |-> NoSession, n |-> 0]]
  /\ ret = NoRet

InitIndex(verses, commentary) ==
  /\ corpus = [c \in CollectionNames |->
                 IF c = "bible_commentary" THEN commentary ELSE verses]
  /\ bsb = Rows
  /\ chroma = [c \in CollectionNames |-> NoCollection]
  /\ proc = [p \in Procs |-> IdleProc]

Init == InitMemory /\ InitIndex(VerseCorpus, CommentaryCorpus)

NextSession ==
  \/ Tick(MaxTime)
  \/ \E u \in Users, dbOk \in BOOLEAN :
       /\ SumCalls(Users) < MaxCalls
       /\ store_system_event(u, AlwaysUp, dbOk)
  \/ \E u \in Users, dbOk \in BOOLEAN :
       /\ SumCalls(Users) < MaxCalls
       /\ store_conversation(u, "voice", AlwaysUp, dbOk)
  \/ \E u \in Users, tie \in TieOrders :
       /\ SumCalls(Users) < MaxCalls
       /\ get_conversation_context(u, AlwaysUp, tie)

SpecSession == Init /\ [][NextSession]_vars

\* the session runs in which sessions are also closed; the events stand
\* for every caller of _get_current_session
NextClose ==
  \/ Tick(MaxTime)
  \/ \E u \in Users :
       /\ SumCalls(Users) < MaxCalls
       /\ store_system_event(u, AlwaysUp, TRUE)
  \/ \E sessionId \in 1..Len(sessions) : close(sessionId)

SpecClose == Init /\ [][NextClose]_vars
(***************************************************************************)
(* Conversation runs: one user appends up to MaxTurns turns and reads the  *)
(* recent ones back.                                                       *)
(***************************************************************************)
ConvUser == "default_user"

NumConvs(u) ==
  Cardinality({i \in 1..Len(conversations) : conversations[i].user_id = u})

NextConv ==
  \/ Tick(MaxConvTime)
  \/ \E mode \in {0, 1, AlwaysUp}, dbOk \in BOOLEAN :
       /\ Len(conversations) < MaxTurns
       /\ (mode # AlwaysUp \/ ~dbOk) => faults < MaxFaults
       /\ store_conversation(ConvUser, "voice", mode, dbOk)
  \/ \E limit \in {2, NumConvs(ConvUser)} \ {0},
        mode \in {NoClient, 0, AlwaysUp}, tie \in TieOrders :
       recentTurns(ConvUser, limit, mode, tie)

SpecConv == Init /\ [][NextConv]_vars

(***************************************************************************)
(* Preference runs: one user sets and gets two keys while redis comes and  *)
(* goes and cached values expire.                                          *)
(***************************************************************************)
PrefKeys == {"voice_preference", "greeting_style"}

NextPref ==
  \/ Tick(MaxPrefTime)
  \/ \E k \in PrefKeys, v \in Values, mode \in RedisModes, dbOk \in BOOLEAN :
       /\ prefs[ConvUser][k].access_count < MaxAccess
       /\ setPreference(ConvUser, k, v, mode, dbOk)
  \/ \E k \in PrefKeys, mode \in RedisModes :
       /\ prefs[ConvUser][k].access_count < MaxAccess
       /\ getPreference(ConvUser, k, mode)
  \/ \E k \in PrefKeys : ExpirePreference(ConvUser, k)

SpecPref == Init /\ [][NextPref]_vars

(***************************************************************************)
(* Write runs: conversations, system events and preferences are written    *)
(* while redis is absent, failing or healthy.                              *)
(***************************************************************************)
RECURSIVE PrefWrites(_)
PrefWrites(ks) ==
  IF ks = {} THEN 0
  ELSE LET k == CHOOSE x \in ks : TRUE
       IN prefs[ConvUser][k].access_count + PrefWrites(ks \ {k})

\* writes committed so far
Writes == Len(conversations) + Len(events) + PrefWrites(Keys)

NextWrite ==
  \/ \E mode \in RedisModes, dbOk \in BOOLEAN :
       /\ Writes < MaxWrites
       /\ resolved[ConvUser].n < MaxWrites
       /\ store_conversation(ConvUser, "voice", mode, dbOk)
  \/ \E mode \in RedisModes, dbOk \in BOOLEAN :
       /\ Writes < MaxWrites
       /\ resolved[ConvUser].n < MaxWrites
       /\ store_system_event(ConvUser, mode, dbOk)
  \/ \E k \in PrefKeys, v \in Values, mode \in RedisModes, dbOk \in BOOLEAN :
       /\ Writes < MaxWrites
       /\ setPreference(ConvUser, k, v, mode, dbOk)

SpecWrite == Init /\ [][NextWrite]_vars

(***************************************************************************)
(* Learning runs: interactions are learned from while time passes.         *)
(***************************************************************************)
\* interactions learned from so far, all users
RECURSIVE Learned(_)
Learned(S) ==
  IF S = {} THEN 0
  ELSE LET u == CHOOSE x \in S : TRUE
       IN hourPattern[u].frequency + Learned(S \ {u})

NextLearn ==
  \/ Tick(MaxLearnTime)
  \/ \E u \in Users, text \in Utterances, dbOk \in BOOLEAN :
       /\ Learned(Users) < MaxLearn
       /\ dbOk \/ faults < MaxFaults
       /\ learn_from_interaction(u, text, dbOk)

SpecLearn == Init /\ [][NextLearn]_vars

\* what the user says in the confidence runs: words of three topics, and
\* nothing
Remarks ==
  {u \in Utterances :
     u \in {<<>>, <<"W", "h", "a", "t", " ", "t", "i", "m", "e">>,
            <<"t", "h", "i", "s", " ", "s", "o", "n", "g">>}}

\* the runs in which every writer of interaction_patterns acts: turns are
\* stored and interactions are learned from, with failing commits
NextPattern ==
  \/ \E text \in Remarks, dbOk \in BOOLEAN :
       /\ Learned(Users) < MaxLearn
       /\ dbOk \/ faults < MaxFaults
       /\ learn_from_interaction(ConvUser, text, dbOk)
  \/ \E dbOk \in BOOLEAN :
       /\ Len(conversations) < MaxWrites
       /\ resolved[ConvUser].n < MaxWrites
       /\ dbOk \/ faults < MaxFaults
       /\ store_conversation(ConvUser, "voice", NoClient, dbOk)

SpecPattern == Init /\ [][NextPattern]_vars

\* the runs of one user who is learned from often enough for a topic to
\* reach the cap of its confidence
NextConfidence ==
  \E text \in Remarks, dbOk \in BOOLEAN :
    /\ hourPattern[ConvUser].frequency < MaxObserve
    /\ dbOk \/ faults < MaxFaults
    /\ learn_from_interaction(ConvUser, text, dbOk)

SpecConfidence == Init /\ [][NextConfidence]_vars

(***************************************************************************)
(* Index runs: two requests initialize the Bible service while searches    *)
(* and deletions arrive.                                                   *)
(***************************************************************************)
\* deletions so far: a collection was deleted each time it was created,
\* but for the time it exists now
RECURSIVE Deletions(_)
Deletions(cs) ==
  IF cs = {} THEN 0
  ELSE LET c == CHOOSE x \in cs : TRUE
       IN chroma[c].gen - (IF chroma[c].exists THEN 1 ELSE 0)
            + Deletions(cs \ {c})

NextIndex ==
  \/ \E p \in Procs, embedOk \in BOOLEAN :
       /\ embedOk \/ faults < MaxFaults
       /\ initialize(p, embedOk)
  \/ \E p \in Procs, embedOk \in BOOLEAN :
       /\ embedOk \/ faults < MaxFaults
       /\ ResumeBuild(p, embedOk)
  \/ \E p \in Procs : NewRequest(p)
  \/ \E c \in CollectionNames, tie \in TieOrders :
       search_verses(c, DefaultLimit, RunDistance, tie)
  \/ \E c \in CollectionNames :
       /\ Deletions(CollectionNames) < MaxDeletes
       /\ delete_collection(c)

SpecIndex == Init /\ [][NextIndex]_vars

(***************************************************************************)
(* Message runs: requests initialize the Bible service and then answer a   *)
(* message.                                                                *)
(***************************************************************************)
InitShortcut ==
  /\ InitMemory
  /\ corpus = [c \in CollectionNames |->
                 IF c = "bible_commentary" THEN CommentaryCorpus
                 ELSE VerseCorpus]
  /\ bsb \in SUBSET Rows
  /\ chroma = [c \in CollectionNames |-> NoCollection]
  /\ proc = [p \in Procs |-> IdleProc]

NextShortcut ==
  \/ initialize("request1", TRUE)
  \/ ResumeBuild("request1", TRUE)
  \/ \E text \in Texts, gen \in Generations, searchOk \in BOOLEAN,
          tie \in TieOrders :
       _handle_bible_query("request1", text, gen, searchOk, tie)
  \/ \E reference \in Texts : LookupReference(reference)

SpecShortcut == InitShortcut /\ [][NextShortcut]_vars

\* the runs of the daily verse: the verse table holds any of the rows, the
\* request builds the collections, with or without a failing batch, and
\* asks for the verse of the day
InitDaily ==
  /\ InitMemory
  /\ corpus = [c \in CollectionNames |->
                 IF c = "bible_commentary" THEN CommentaryCorpus
                 ELSE VerseCorpus]
  /\ bsb \in SUBSET (Rows \cup {JeremiahRow})
  /\ chroma = [c \in CollectionNames |-> NoCollection]
  /\ proc = [p \in Procs |-> IdleProc]

NextDaily ==
  \/ \E embedOk \in BOOLEAN :
       /\ embedOk \/ faults < MaxFaults
       /\ initialize("request1", embedOk)
  \/ \E embedOk \in BOOLEAN :
       /\ embedOk \/ faults < MaxFaults
       /\ ResumeBuild("request1", embedOk)
  \/ \E topic \in encouraging_topics, gen \in Generations,
        searchOk \in BOOLEAN, tie \in TieOrders :
       GetDailyVerse("request1", topic, gen, searchOk, tie)

SpecDaily == InitDaily /\ [][NextDaily]_vars

\* the runs of POST /bible/ask: requests initialize and build what they
\* find absent, collections can be deleted under them, and request1 is the
\* one whose answer is observed
NextAnswer ==
  \/ \E p \in Procs, embedOk \in BOOLEAN :
       /\ embedOk \/ faults < MaxFaults
       /\ initialize(p, embedOk)
  \/ \E p \in Procs, embedOk \in BOOLEAN :
       /\ embedOk \/ faults < MaxFaults
       /\ ResumeBuild(p, embedOk)
  \/ \E c \in CollectionNames :
       /\ Deletions(CollectionNames) < MaxDeletes
       /\ delete_collection(c)
  \/ \E c \in VerseCollections, include_commentary \in BOOLEAN,
        gen \in Generations, searchOk \in BOOLEAN, tie \in TieOrders :
       AskBibleQuestion("request1", c, include_commentary, gen, searchOk, tie)
  \/ AskBibleQuestionUninitialized("request1")

SpecAnswer == Init /\ [][NextAnswer]_vars

(***************************************************************************)
(* Claims.                                                                 *)
(***************************************************************************)
\* the sessions of u that are open (no end time) and started within the
\* window, as the claims define them
OpenInWindow(u) ==
  {i \in 1..Len(sessions) :
     /\ sessions[i].user_id = u
     /\ sessions[i].session_end = NoTime
     /\ now - sessions[i].session_start <= SessionWindowHours}

\* a _get_current_session for u completes in this step
ResolveCompletes(u) == resolved'[u].n = resolved[u].n + 1

\* C1: when a resolve for user u completes after an earlier resolve for u,
\* and the session the earlier call returned is still open and within the
\* 4-hour window, the call returns that same session id and adds no session.
C1_ResolveTwiceSameSession ==
  [][\A u \in Users :
       ( /\ ResolveCompletes(u)
         /\ resolved[u].id # NoSession
         /\ resolved[u].id \in OpenInWindow(u) )
       => ( /\ resolved'[u].id = resolved[u].id
            /\ sessions' = sessions )]_vars

\* C1 witness: a user resolved twice, at different times, and still has the
\* one session
C1_Witness ==
  \E u \in Users :
    /\ resolved[u].n >= 2
    /\ now > 0
    /\ {i \in 1..Len(sessions) : sessions[i].user_id = u} = {resolved[u].id}
    /\ sessions[resolved[u].id].session_start = 0

\* C2: whatever the order of the resolve calls of store_conversation,
\* store_system_event and get_conversation_context, a user never has two
\* open in-window sessions, and each call returns the one there is.
C2_NoDuplicateSessions ==
  /\ [](\A u \in Users : Cardinality(OpenInWindow(u)) <= 1)
  /\ [][\A u \in Users :
          ResolveCompletes(u) =>
            {i \in 1..Len(sessions') :
               /\ sessions'[i].user_id = u
               /\ sessions'[i].session_end = NoTime
               /\ now' - sessions'[i].session_start <= SessionWindowHours}
              = {resolved'[u].id}]_vars

\* C2 witness: three calls of one user, from different entry points, share
\* one session
C2_Witness ==
  \E u \in Users :
    /\ resolved[u].n >= 3
    /\ Len(conversations) >= 1
    /\ Len(events) >= 1
    /\ OpenInWindow(u) = {resolved[u].id}
    /\ Len(sessions) = 1

\* the conversations of u, oldest first (the order in which the appends
\* completed)
TurnsOf(u) == SelectSeq(conversations, LAMBDA c : c.user_id = u)

NonIncreasingTime(list) ==
  \A i, j \in 1..Len(list) : i < j => list[i].timestamp >= list[j].timestamp

\* C3: after N appends of a user completed, recent(U, N) returns exactly N
\* entries in non-increasing order of creation time.  Stated for the runs
\* in which neither redis nor the database ever failed.
C3_RecentReturnsAllAppended ==
  ( /\ ret.op = "get_recent_conversations"
    /\ faults = 0
    /\ ret.id = NumConvs(ret.user) )
  => ( /\ Len(ret.list) = NumConvs(ret.user)
       /\ NonIncreasingTime(ret.list) )

\* C4: once append a and then append b completed, recent(U, 2) returns
\* [b, a]: the turn appended last comes first, the one before it second.
C4_RecentFollowsCompletionOrder ==
  ( /\ ret.op = "get_recent_conversations"
    /\ ret.id = 2
    /\ NumConvs(ret.user) >= 2 )
  => LET turns == TurnsOf(ret.user)
         n == Len(turns)
     IN ret.list = <<Projection(turns[n]), Projection(turns[n - 1])>>

\* C5: get(U, k) returns the value stored for k, from the cache or from the
\* durable store, and None for a key that was never set.
C5_PreferenceRoundTrip ==
  ret.op = "get_user_context" =>
    LET row == prefs[ret.user][ret.list[1]]
    IN IF row.exists THEN ret.value = row.value ELSE ret.value = NoValue

\* a collection that was deleted at some time: it was created more often
\* than it exists
Deleted(c) == chroma[c].gen > (IF chroma[c].exists THEN 1 ELSE 0)

HoldsEachRecordOnce(c) ==
  /\ chroma[c].exists
  /\ Len(chroma[c].entries) = corpus[c]
  /\ {chroma[c].entries[n] : n \in 1..Len(chroma[c].entries)} = 1..corpus[c]

\* C6: when two callers have run _ensure_embeddings_exist to its end,
\* one after the other or interleaved, with no failed batch and no
\* deletion, every collection exists and holds each corpus record exactly
\* once.
C6_EnsureBuiltIdempotent ==
  ( /\ \A p \in Procs : proc[p].pc = "ready"
    /\ faults = 0
    /\ \A c \in CollectionNames : ~Deleted(c) )
  => \A c \in CollectionNames : HoldsEachRecordOnce(c)

BuildSuspended(c) ==
  \E p \in Procs : proc[p].pc = "building" /\ Collections[proc[p].coll] = c

Partial(c) == chroma[c].exists /\ Len(chroma[c].entries) < corpus[c]

\* C7: while a build of C is suspended between batches with C partially
\* filled, no search takes its hits from C and no caller's existence check
\* counts C among the collections that need no build.
C7_PartialNeverReady ==
  [][\A c \in CollectionNames :
       (BuildSuspended(c) /\ Partial(c)) =>
         /\ ~( /\ ret' # ret
               /\ ret'.op = "search"
               /\ ret'.value = c
               /\ ret'.list # <<>> )
         /\ \A p \in Procs :
              (proc[p].pc = "idle" /\ proc'[p].pc # "idle")
                => c \notin proc'[p].snapshot]_vars

Position(entries, x) == CHOOSE n \in 1..Len(entries) : entries[n] = x

\* C8: a search returns at most limit hits, in non-increasing order of
\* similarity, hits of equal similarity in the order their records were
\* inserted, and every similarity lies in [0,1].
C8_QueryOrderedAndBounded ==
  [][(ret' # ret /\ ret'.op = "search") =>
       LET r == ret'.list
           e == chroma[ret'.value].entries
       IN /\ Len(r) <= ret'.id
          /\ \A i, j \in 1..Len(r) :
               i < j =>
                 /\ r[i].similarity_score >= r[j].similarity_score
                 /\ r[i].similarity_score = r[j].similarity_score
                      => Position(e, r[i].id) < Position(e, r[j].id)
          /\ \A i \in 1..Len(r) : r[i].similarity_score \in 0..1]_vars

\* C9: a search of a collection that does not exist (never built, or
\* deleted) returns the empty list and leaves the store, the corpus and
\* every build untouched.
C9_QueryAbsentReturnsEmpty ==
  [][(ret' # ret /\ ret'.op = "search" /\ ~chroma[ret'.value].exists) =>
       /\ ret'.list = <<>>
       /\ chroma' = chroma
       /\ corpus' = corpus
       /\ proc' = proc]_vars

\* a search of a deleted collection has returned the empty list
C9_Witness ==
  /\ ret.op = "search"
  /\ ret.list = <<>>
  /\ ~chroma[ret.value].exists
  /\ chroma[ret.value].gen >= 1

\* the message names the verse of row r: a word equal to its book without
\* regard to case, followed by its chapter:verse
NamesVerse(text, r) ==
  \E i \in 1..(Len(text) - 1) :
    /\ text[i].kind = "word"
    /\ Lower(text[i].word) = Lower(r.Book)
    /\ text[i + 1].kind = "numbers"
    /\ text[i + 1].chapter = r.Chapter
    /\ text[i + 1].verse = r.Verse

Contains(parts, x) == \E n \in 1..Len(parts) : parts[n] = x

\* C10: the answer to a message that names a verse the table holds is the
\* verse answer, contains the stored text of that verse and comes without
\* a search of the verse collections; a message that names a verse the
\* table does not hold gets no verse answer.
C10_ShortcutReturnsStoredText ==
  ret.op = "bible_query" =>
    /\ \A r \in bsb :
         NamesVerse(ret.list, r) =>
           /\ ret.value.branch = "verse"
           /\ Contains(ret.value.parts, r.Text)
           /\ ret.value.searched \cap {"bible_verses_bsb", "bible_verses_kjv"}
                = {}
    /\ (\A r \in bsb : ~NamesVerse(ret.list, r))
         => ret.value.branch # "verse"

\* the reference reads "Book Chapter:Verse" with the book, chapter and
\* verse of row r, the book in any case
RefersTo(reference, r) ==
  /\ Len(reference) = 2
  /\ reference[1].kind = "word"
  /\ Lower(reference[1].word) = Lower(r.Book)
  /\ reference[2].kind = "numbers"
  /\ reference[2].chapter = r.Chapter
  /\ reference[2].verse = r.Verse

\* C11: get_verse_by_reference returns the row the reference refers to,
\* and no row when the reference does not parse or the table holds no
\* such row; it never returns another row.
C11_LookupReturnsTheRecord ==
  ret.op = "get_verse_by_reference" =>
    /\ \A r \in bsb : RefersTo(ret.list, r) => ret.value = <<r>>
    /\ (\A r \in bsb : ~RefersTo(ret.list, r)) => ret.value = <<>>

\* a lower-case reference has returned the stored row
C11_Witness ==
  /\ ret.op = "get_verse_by_reference"
  /\ ret.list[1].word = "john"
  /\ Len(ret.value) = 1
  /\ ret.value[1].Book = "John"

WhatTimeIsIt ==
  <<"w", "h", "a", "t", " ", "t", "i", "m", "e", " ", "i", "s", " ", "i", "t", "?">>

LearnCommits(u) ==
  /\ ret' # ret
  /\ ret'.op = "learn_from_interaction"
  /\ ret'.user = u
  /\ ret'.id > 0

\* C12: an interaction that is learned from adds exactly 1 to the counter
\* of every topic that has a keyword occurring in the text and leaves every
\* other topic counter as it was; "what time is it?" adds 1 to "time" and
\* "question" and leaves "weather" alone.
C12_ObserveIncrementsMatchedTopics ==
  [][\A u \in Users :
       LearnCommits(u) =>
         /\ \A topic \in Topics :
              topicPattern'[u][topic].frequency =
                topicPattern[u][topic].frequency
                  + (IF \E word \in keywords(topic) :
                          Occurs(word, text_lower(ret'.list))
                       THEN 1 ELSE 0)
         /\ \A v \in Users \ {u} : topicPattern'[v] = topicPattern[v]
         /\ ret'.list = WhatTimeIsIt =>
              /\ topicPattern'[u]["time"].frequency =
                   topicPattern[u]["time"].frequency + 1
              /\ topicPattern'[u]["question"].frequency =
                   topicPattern[u]["question"].frequency + 1
              /\ topicPattern'[u]["weather"].frequency =
                   topicPattern[u]["weather"].frequency]_vars

\* "what time is it?" was learned from twice
C12_Witness ==
  /\ ret.op = "learn_from_interaction"
  /\ ret.list = WhatTimeIsIt
  /\ topicPattern[ret.user]["time"].frequency = 2
  /\ topicPattern[ret.user]["question"].frequency = 2
  /\ topicPattern[ret.user]["weather"].frequency = 0

\* C13: a write whose durable write commits reports success, whatever
\* redis does: store_conversation and store_system_event return the id of
\* the new row, set_user_context returns True.
C13_CommittedWriteReportsSuccess ==
  [][/\ Len(conversations') > Len(conversations)
          => (ret'.op = "store_conversation"
              /\ ret'.id = conversations'[Len(conversations')].id)
     /\ Len(events') > Len(events)
          => (ret'.op = "store_system_event"
              /\ ret'.id = events'[Len(events')].id)
     /\ prefs' # prefs
          => (ret'.op = "set_user_context" /\ ret'.id = 1)]_vars

\* C14: recent(U, limit) returns min(limit, number of conversations the
\* durable store holds for U) entries, whatever the cache holds.
C14_RecentServedWhenSufficient ==
  ret.op = "get_recent_conversations"
    => Len(ret.list) = Min(ret.id, NumConvs(ret.user))

\* C15: recent(U, limit) returns what the ordered query of the durable
\* store returns (rows of equal timestamp in an order that query may
\* choose), also after appends made while redis was absent or failing and
\* when reading the cache fails.
C15_DurableStoreAuthoritative ==
  ret.op = "get_recent_conversations"
    => \E tie \in TieOrders :
         ret.list = RecentFromDb(conversations, ret.user, ret.id, tie)

\* C18: the cached list of a user never holds more than 20 entries, and
\* they are the most recently pushed ones, newest first.
C18_CacheBounded ==
  \A u \in Users :
    /\ Len(convCache[u]) <= RecentConversationsKept
    /\ \A i, j \in 1..Len(convCache[u]) :
         i < j => convCache[u][i].id > convCache[u][j].id

\* C19: every entry of the cache is the projection of a conversation the
\* durable store holds, and an append whose durable write fails changes
\* neither the cache nor the conversations and returns no id.
C19_DurableBeforeCache ==
  /\ [](\A u \in Users : \A n \in 1..Len(convCache[u]) :
          \E i \in 1..Len(conversations) :
            /\ conversations[i].user_id = u
            /\ Projection(conversations[i]) = convCache[u][n])
  /\ [][(ret'.op = "store_conversation" /\ faults' # faults
           /\ conversations' = conversations)
          => (ret'.id = 0 /\ convCache' = convCache)]_vars

\* an append failed in the durable write while the cache held an entry
C19_Witness ==
  /\ ret.op = "store_conversation"
  /\ ret.id = 0
  /\ Len(conversations) >= 1
  /\ Len(convCache[ret.user]) >= 1

\* the answer step of a request that called the generation service
AnswerStep ==
  /\ ret' # ret
  /\ ret'.op = "ask_bible_question"
  /\ ret'.list # <<>>

\* C16: when the call to the generation service fails, ask_bible_question
\* returns a canned apology as its answer: the answer is not empty and the
\* result carries no error.
C16_FailedGenerationYieldsApology ==
  (ret.op = "ask_bible_question" /\ ret.list # <<>>
     /\ ~ret.list[1].generation.ok)
    => /\ ret.value.answer \in {GenerationApology, SearchApology}
       /\ ret.value.answer # <<>>
       /\ "error" \notin DOMAIN ret.value

\* a collection with nothing to retrieve: absent, or present and empty
NothingIndexed(c) == ~chroma[c].exists \/ chroma[c].entries = <<>>

\* C17: when the collection asked and the commentary collection are empty
\* or absent, or the retrieval raises, the answer step calls the generation
\* service exactly once and returns a result with no cited verses, no cited
\* commentary and no error.
C17_AnswerProceedsWithZeroSources ==
  [][(AnswerStep
       /\ \/ ~ret'.list[1].searchOk
          \/ /\ NothingIndexed(ret'.list[1].collection)
             /\ NothingIndexed("bible_commentary"))
      => /\ ret'.id = 1
         /\ ret'.value.supporting_verses = <<>>
         /\ ret'.value.commentary = <<>>
         /\ "error" \notin DOMAIN ret'.value]_vars

C17_Witness ==
  /\ ret.op = "ask_bible_question"
  /\ ret.list # <<>>
  /\ ret.list[1].searchOk
  /\ ret.list[1].include_commentary
  /\ chroma[ret.list[1].collection].exists
  /\ NothingIndexed(ret.list[1].collection)
  /\ NothingIndexed("bible_commentary")
  /\ ret.id = 1
  /\ ret.value.supporting_verses = <<>>
  /\ ret.value.answer # <<>>

\* C20: request handling is never blocked by index building: the
\* initialize a request awaits before it answers returns without
\* suspending in the embedding build of a collection it found absent.
C20_RequestNeverWaitsForBuild ==
  [][\A p \in Procs :
       (proc[p].pc = "idle" /\ proc'[p].pc # "idle")
         => proc'[p].pc = "ready"]_vars

\* C21: a failed build leaves the collection absent. A request that goes
\* through _ensure_embeddings_exist without one successful batch (every
\* build it tried failed: wrong input type, or the embedding raised) leaves
\* each collection it tried to build absent, and a build whose later batch
\* fails leaves its collection absent.
C21_FailedBuildLeavesCollectionAbsent ==
  [][\A p \in Procs :
       /\ \A c \in CollectionNames :
            (proc[p].pc = "idle" /\ proc'[p].pc = "ready"
               /\ c \notin proc'[p].snapshot /\ corpus[c] > 0)
              => ~chroma'[c].exists
       /\ (proc[p].pc = "building" /\ proc'[p] # proc[p]
             /\ proc[p].next <= corpus[Collections[proc[p].coll]]
             /\ faults' > faults)
            => ~chroma'[Collections[proc[p].coll]].exists]_vars

\* C22: get_daily_verse falls back to the hardcoded verse: when the search
\* returns no verse and the table holds Jeremiah 29:11, the result holds
\* that verse and a reflection, and no error.
C22_DailyVerseFallsBack ==
  (ret.op = "get_daily_verse" /\ ret.list[1].hits = 0 /\ JeremiahRow \in bsb)
    => /\ "error" \notin DOMAIN ret.value
       /\ "reflection" \in DOMAIN ret.value
       /\ DictGet(ret.value, "verse", EmptyDict) = JeremiahRow

\* C23: the durable store holds at most one entry for (U, k), which the
\* upsert keeps by construction, and the value of that entry is the value of
\* a set call that reported success: the durable value of k changes only in
\* a set_user_context of k that returns true with that value.
C23_DurableValueFromSuccessfulSet ==
  [][\A u \in Users, k \in Keys :
       prefs'[u][k].value # prefs[u][k].value
         => /\ ret'.op = "set_user_context"
            /\ ret'.list = <<k>>
            /\ ret'.id = 1
            /\ ret'.value = prefs'[u][k].value]_vars

\* a step that is a get_user_context call: the one step that leaves a get
\* in ret and changes ret or the durable entries
GetStep ==
  /\ ret'.op = "get_user_context"
  /\ ret' # ret \/ prefs' # prefs

\* the cache answered the redis get of the call the step made
CacheReached == HasClient(ret'.id) /\ CmdOk(ret'.id)

\* C24: get(U, k) is cache-first. A get answered by the cache leaves the
\* durable entry unchanged; a get that misses the cache and finds the
\* durable entry adds exactly 1 to its access counter and puts the durable
\* value in the cache; a get that finds nothing changes neither the cache
\* nor the durable store.
C24_GetIsCacheFirst ==
  [][GetStep =>
       LET u == ret'.user
           k == ret'.list[1]
           row == prefs[u][k]
           hit == CacheReached /\ Truthy(prefCache[u][k])
           miss == CacheReached /\ ~Truthy(prefCache[u][k])
       IN /\ hit => (prefs' = prefs /\ prefCache' = prefCache
                       /\ ret'.value = json_loads(prefCache[u][k]))
          /\ (miss /\ row.exists)
               => /\ prefs'[u][k].access_count = row.access_count + 1
                  /\ prefs'[u][k].value = row.value
                  /\ prefCache'[u][k] = json_dumps(row.value)
          /\ (~hit /\ ~row.exists)
               => (prefs' = prefs /\ prefCache' = prefCache)]_vars

\* C25: the confidence of a topic, in tenths, stays in 0..10 and grows by
\* a fixed step: a topic pattern is created with 5, each further matching
\* observe raises it by 1 up to 10, and it never exceeds 10 and never
\* decreases.
C25_ConfidenceBoundedAndStepped ==
  [][\A u \in Users, topic \in Topics :
       LET old == topicPattern[u][topic]
           new == topicPattern'[u][topic]
       IN /\ new.confidence_score \in 0..10
          /\ new.confidence_score >= old.confidence_score
          /\ (old.frequency = 0 /\ new.frequency > 0)
               => new.confidence_score = 5
          /\ (old.frequency > 0 /\ new.frequency > old.frequency)
               => new.confidence_score
                    = (IF old.confidence_score = 10 THEN 10
                       ELSE old.confidence_score + 1)]_vars

\* a topic that was matched once more after it had reached the cap
C25_Witness ==
  \E topic \in Topics :
    /\ topicPattern[ConvUser][topic].frequency = 7
    /\ topicPattern[ConvUser][topic].confidence_score = 10

\* a step in which an observe of user u committed: the one step that adds
\* to the counter of the active_hours row of u
ObserveCommits(u) == hourPattern'[u].frequency = hourPattern[u].frequency + 1

TurnsIn(i) == {n \in 1..Len(conversations) : conversations[n].session_id = i}

\* C27: a session is mutated on every interaction: its interaction count
\* equals the number of conversations stored with its id, and its last
\* activity is the time of the latest of them.
C27_SessionCountsItsTurns ==
  \A i \in 1..Len(sessions) :
    /\ sessions[i].total_interactions = Cardinality(TurnsIn(i))
    /\ \A n \in TurnsIn(i) :
         sessions[i].last_activity >= conversations[n].timestamp

\* session i has an end time, or started more than 4 hours ago
ClosedOrExpired(i) ==
  \/ sessions[i].session_end # NoTime
  \/ now - sessions[i].session_start > SessionWindowHours

\* C28: a closed or expired session is never resumed: a resolve of u never
\* returns a session that has an end time or started more than 4 hours
\* ago; when u has no open session in the window the resolve creates a new
\* one, and afterwards u has exactly that one open session in the window.
C28_ClosedOrExpiredNeverResumed ==
  [][\A u \in Users :
       ResolveCompletes(u) =>
         /\ \A i \in 1..Len(sessions) :
              ClosedOrExpired(i) => resolved'[u].id # i
         /\ OpenInWindow(u) = {}
              => /\ Len(sessions') = Len(sessions) + 1
                 /\ resolved'[u].id = Len(sessions')
                 /\ sessions'[resolved'[u].id].session_start = now
         /\ {i \in 1..Len(sessions') :
               /\ sessions'[i].user_id = u
               /\ sessions'[i].session_end = NoTime
               /\ now' - sessions'[i].session_start <= SessionWindowHours}
              = {resolved'[u].id}]_vars

\* a user went through a closed session and an expired one and is in a
\* third
C28_Witness ==
  \E u \in Users :
    /\ resolved[u].id = 3
    /\ \A i \in 1..3 : sessions[i].user_id = u
    /\ sessions[1].session_end # NoTime
    /\ sessions[2].session_end = NoTime
    /\ now - sessions[2].session_start > SessionWindowHours
    /\ OpenInWindow(u) = {3}

\* a step that is a set_user_context call
SetStep ==
  /\ ret'.op = "set_user_context"
  /\ ret' # ret \/ prefs' # prefs

\* C29: set_user_context reports failure only when nothing was stored: when
\* it returns false the durable entry of (U, k) is as it was, and when it
\* returns true a cached value of (U, k), if there is one, is the durable
\* value.
C29_FailureMeansNothingStored ==
  [][SetStep =>
       LET u == ret'.user
           k == ret'.list[1]
       IN /\ ret'.id = 0 => prefs'[u][k] = prefs[u][k]
          /\ (ret'.id = 1 /\ Truthy(prefCache'[u][k]))
               => json_loads(prefCache'[u][k]) = prefs'[u][k].value]_vars

\* the sum of the buckets h..23 of a histogram
RECURSIVE SumFrom(_, _)
SumFrom(hours, h) ==
  IF h >= HoursPerDay THEN 0 ELSE hours[h] + SumFrom(hours, h + 1)

\* C30: the hour-of-day histogram is consistent: in every state the sum of
\* the buckets of a user's active_hours pattern equals its frequency; each
\* committed observe adds 1 to the bucket of the current hour and to no
\* other; an observe that fails changes neither the topic counters nor the
\* histogram.
C30_HourHistogramConsistent ==
  /\ [](\A u \in Users :
          SumFrom(hourPattern[u].hours, 0) = hourPattern[u].frequency)
  /\ [][\A u \in Users :
          /\ ObserveCommits(u)
               => \A h \in 0..(HoursPerDay - 1) :
                    hourPattern'[u].hours[h] =
                      hourPattern[u].hours[h]
                        + (IF h = now % HoursPerDay THEN 1 ELSE 0)
          /\ (ret' # ret /\ ret'.op = "learn_from_interaction"
                /\ ret'.id = 0)
               => UNCHANGED learnVars]_vars

====
